---------------------------- MODULE Spec2Model ----------------------------
(***************************************************************************)
(* Snake for Arduino (lukedmathes/snake-arduino): the game loop of         *)
(* snake_game, the occupancy grid, fruit placement, the input poller and   *)
(* the shift-register debouncer, as state machines.                        *)
(*                                                                         *)
(*   Spec          the game: snake_game called forever by loop()           *)
(*   SpecGrid      head writes and board_clear_old on a free-standing grid *)
(*   SpecInput     get_direction_input, sample by sample, with the four    *)
(*                 static debounce registers                               *)
(*   SpecDebounce  one debounce register under input_check_debounced       *)
(*   SpecFair      Spec with a random source that keeps drawing each cell  *)
(*   SpecGames     SpecInput with snake_game called again after a game     *)
(*   SpecSample    receive_debounced_input, one call per sampling instant  *)
(*   SpecWait      get_direction_input for any tick duration               *)
(*   SpecFilter    is_not_opposite_direction on its own                    *)
(*   SpecScore     score and head TTL as int8_t over a full-size game      *)
(***************************************************************************)
EXTENDS Integers, Sequences, FiniteSets, TLC

(***************************************************************************)
(* Board size.  The source has a 36 x 19 board with the spawn area 5 cells *)
(* inside it; the model keeps the code and scales the board.               *)
(***************************************************************************)
X_COORD_LIMIT == 4
Y_COORD_LIMIT == 4
\* random(5, X_COORD_LIMIT - 5): the spawn margin, scaled with the board
SPAWN_MARGIN == 1
INITIAL_LENGTH == 4
DEBOUNCING_INTERVAL == 5
DEBOUNCING_TOTAL_TIME == 20

\* valid ticks explored per game
MaxTicks == 5
\* debounced edges considered within one tick of the game
MaxEdges == 1

VARIABLES
  pc,          \* position in loop() / snake_game / generate_fruit_location
  game_board,  \* int8_t game_board[X_COORD_LIMIT][Y_COORD_LIMIT]
  score,       \* int8_t score
  player,      \* coordinates player
  fruit,       \* coordinates fruit (x_coord, y_coord)
  fruit_ret,   \* call site of generate_fruit_location: "start" or "score"
  cleared,     \* cells passed to display_clear_space by the last board_clear_old
  ticks,       \* history: valid ticks of this game so far
  tick0,       \* history: player, fruit, score, grid at this tick's validity check
  aged,        \* history: board_clear_old calls in this tick
  placed,      \* history: generate_fruit_location calls completed in this tick
  valid_out,   \* the value the last location_valid call returned
  \* the free-standing grid (SpecGrid)
  op,          \* the last operation: "write", "clear" or "none"
  written,     \* history: per probed cell, the TTL of its last write (0: none)
  ages,        \* history: per probed cell, board_clear_old calls since that write
  \* the input module (SpecInput)
  in_pc,           \* "idle": outside get_direction_input, "loop": in its for loop
  new_input,       \* snake_direction new_input
  poll_i,          \* int16_t i
  debounce,        \* static uint16_t debounce_left, _right, _up, _down
  debounced_input, \* snake_direction debounced_input
  entry_direction, \* history: player_direction when the call began
  accepted,        \* history: inputs accepted in this call
  last_accepted,   \* history: the latest debounced input of this call that is
                   \* no reversal of entry_direction ("NONE": none yet)
  raw_run,         \* history (SpecSample): per button, the latest consecutive
                   \* sampling instants with its raw level active (up to the width)
  run_reports,     \* history (SpecSample): per button, the reports of its
                   \* direction during its current run of active instants
  run_ended,       \* history (SpecSample): per button, the reports its run of at
                   \* least the width got, if the run ended at this instant (-1:
                   \* no such run ended now)
  game_start,      \* history: snake_game has begun and has not polled yet
  \* one debounce register (SpecDebounce)
  db_w,        \* DEBOUNCING_TOTAL_TIME / DEBOUNCING_INTERVAL of the build
  db_reg,      \* the uint16_t register
  db_run,      \* history: length of the current run of active samples
  db_out,      \* the value the last input_check_debounced call returned
  \* is_not_opposite_direction on its own (SpecFilter)
  f_old,       \* old_direction of the last call
  f_new,       \* new_direction of the last call
  f_out,       \* the value it returned ("none": not called yet)
  f_calls,     \* history: calls so far
  \* the score over a long game (SpecScore)
  sc_ttl,      \* the value the last head write stored in its int8_t cell
  sc_prev,     \* history: the score before the last tick
  sc_fruits,   \* history: fruits eaten in this game
  \* the tick duration (SpecWait)
  w_t,         \* uint16_t input_wait of snake_game
  w_wait,      \* int16_t input_wait of get_direction_input
  w_delay,     \* history: the ms passed to delay() by this call, in total,
               \* as wraps * 2^32 + ms
  w_done       \* history: the call has returned

gameVars == <<pc, game_board, score, player, fruit, fruit_ret, cleared,
              ticks, tick0, aged, placed, valid_out>>
gridVars == <<op, written, ages>>
inputVars == <<in_pc, new_input, poll_i, debounce, debounced_input,
               entry_direction, accepted>>
debVars == <<db_w, db_reg, db_run, db_out>>
runHist == <<raw_run, run_reports, run_ended>>
inputHist == <<last_accepted, runHist, game_start>>
filterVars == <<f_old, f_new, f_out, f_calls>>
scoreVars == <<sc_ttl, sc_prev, sc_fruits>>
waitVars == <<w_t, w_wait, w_delay, w_done>>
auxVars == <<filterVars, scoreVars, waitVars>>

vars == <<gameVars, gridVars, inputVars, debVars, inputHist, auxVars>>

-----------------------------------------------------------------------------
(* Types of the source *)

Directions == {"NONE", "LEFT", "RIGHT", "UP", "DOWN"}

\* value of an int8_t after storing v
ToInt8(v) == ((v + 128) % 256) - 128

\* conversion to int16_t
ToInt16(v) == ((v + 32768) % 65536) - 32768

\* conversion of an int to unsigned long, the parameter type of delay():
\* v modulo 2^32, written as wraps * 2^32 + ms (2^32 itself is beyond the
\* integers of the model checker)
ToUint32(v) == [wraps |-> IF v < 0 THEN 1 ELSE 0, ms |-> v]

\* the sum of two delays
delay_sum(d, e) == [wraps |-> d.wraps + e.wraps, ms |-> d.ms + e.ms]

\* the / and % of C, truncating towards zero, for a positive divisor
c_div(a, b) == IF a >= 0 THEN a \div b ELSE -((-a) \div b)
c_rem(a, b) == a - b * c_div(a, b)

\* Arduino random(min, max): min <= r < max
Random(min, max) == min .. (max - 1)

Xs == 0 .. (X_COORD_LIMIT - 1)
Ys == 0 .. (Y_COORD_LIMIT - 1)

\* int8_t game_board[X_COORD_LIMIT][Y_COORD_LIMIT] = {0}
ZeroBoard == [x \in Xs |-> [y \in Ys |-> 0]]

-----------------------------------------------------------------------------
(* Pure functions of the game module *)

\* location_valid with the occupancy test off by one (1 < cell)
location_valid_off_by_one(player_data, board) ==
  IF \/ 0 > player_data.x_coord
     \/ 0 > player_data.y_coord
     \/ X_COORD_LIMIT <= player_data.x_coord
     \/ Y_COORD_LIMIT <= player_data.y_coord
  THEN FALSE
  ELSE IF 1 < board[player_data.x_coord][player_data.y_coord]
       THEN FALSE
       ELSE TRUE

location_valid(player_data, board) ==
  IF \/ 0 > player_data.x_coord
     \/ 0 > player_data.y_coord
     \/ X_COORD_LIMIT <= player_data.x_coord
     \/ Y_COORD_LIMIT <= player_data.y_coord
  THEN FALSE
  ELSE IF 0 < board[player_data.x_coord][player_data.y_coord]
       THEN FALSE
       ELSE TRUE

player_at_fruit(a, b) ==
  (a.x_coord = b.x_coord) /\ (a.y_coord = b.y_coord)

\* board_clear_old decrementing every cell that is >= 0
board_clear_old_below_zero(board) ==
  [x \in Xs |-> [y \in Ys |->
     IF 0 <= board[x][y] THEN ToInt8(board[x][y] - 1) ELSE board[x][y]]]

\* the grid after board_clear_old
board_clear_old(board) ==
  [x \in Xs |-> [y \in Ys |->
     IF 0 < board[x][y] THEN ToInt8(board[x][y] - 1) ELSE board[x][y]]]

\* board_clear_old clearing the display at every cell it decrements
cleared_spaces_every_decrement(board) ==
  {c \in Xs \X Ys : 0 < board[c[1]][c[2]]}

\* the cells board_clear_old passes to display_clear_space
cleared_spaces(board) ==
  {c \in Xs \X Ys :
     0 < board[c[1]][c[2]] /\ 0 >= ToInt8(board[c[1]][c[2]] - 1)}

\* the bounds test with <= for <
display_draw_new_halts_at_limit(c) ==
  (X_COORD_LIMIT <= c.x_coord) \/ (Y_COORD_LIMIT <= c.y_coord)

\* display_draw_new: the out-of-bounds test, after which the DEBUG build
\* (#define DEBUG) prints the error and stays in while (1)
display_draw_new_halts(c) ==
  (X_COORD_LIMIT < c.x_coord) \/ (Y_COORD_LIMIT < c.y_coord)

\* the switch moving two cells to the left
move_player_two(p) ==
  CASE p.player_direction = "LEFT"  -> [p EXCEPT !.x_coord = ToInt8(@ - 2)]
    [] p.player_direction = "RIGHT" -> [p EXCEPT !.x_coord = ToInt8(@ + 1)]
    [] p.player_direction = "UP"    -> [p EXCEPT !.y_coord = ToInt8(@ - 1)]
    [] p.player_direction = "DOWN"  -> [p EXCEPT !.y_coord = ToInt8(@ + 1)]
    [] OTHER -> p

\* move_player with UP and DOWN exchanged
move_player_flipped(p) ==
  CASE p.player_direction = "LEFT"  -> [p EXCEPT !.x_coord = ToInt8(@ - 1)]
    [] p.player_direction = "RIGHT" -> [p EXCEPT !.x_coord = ToInt8(@ + 1)]
    [] p.player_direction = "UP"    -> [p EXCEPT !.y_coord = ToInt8(@ + 1)]
    [] p.player_direction = "DOWN"  -> [p EXCEPT !.y_coord = ToInt8(@ - 1)]
    [] OTHER -> p

move_player(p) ==
  CASE p.player_direction = "LEFT"  -> [p EXCEPT !.x_coord = ToInt8(@ - 1)]
    [] p.player_direction = "RIGHT" -> [p EXCEPT !.x_coord = ToInt8(@ + 1)]
    [] p.player_direction = "UP"    -> [p EXCEPT !.y_coord = ToInt8(@ - 1)]
    [] p.player_direction = "DOWN"  -> [p EXCEPT !.y_coord = ToInt8(@ + 1)]
    [] OTHER -> p

\* a while condition that draws again at every free cell
fruit_rejected_free(new_fruit, player_location, board) ==
  \/ 0 = board[new_fruit.x_coord][new_fruit.y_coord]
  \/ (new_fruit.x_coord # player_location.x_coord
      /\ new_fruit.y_coord # player_location.y_coord)

\* the while condition of generate_fruit_location: draw again
fruit_rejected(new_fruit, player_location, board) ==
  /\ 0 # board[new_fruit.x_coord][new_fruit.y_coord]
  /\ (new_fruit.x_coord # player_location.x_coord
      /\ new_fruit.y_coord # player_location.y_coord)

\* the switch without its DOWN case
is_not_opposite_direction_no_down(old_direction, new_direction) ==
  CASE old_direction = "LEFT"  -> ~("RIGHT" = new_direction)
    [] old_direction = "RIGHT" -> ~("LEFT" = new_direction)
    [] old_direction = "UP"    -> ~("DOWN" = new_direction)
    [] OTHER -> TRUE

is_not_opposite_direction(old_direction, new_direction) ==
  CASE old_direction = "LEFT"  -> ~("RIGHT" = new_direction)
    [] old_direction = "RIGHT" -> ~("LEFT" = new_direction)
    [] old_direction = "UP"    -> ~("DOWN" = new_direction)
    [] old_direction = "DOWN"  -> ~("UP" = new_direction)
    [] OTHER -> TRUE

\* the loop body filtering against the latest tentative direction
accept_input_latest(player_direction, tentative, debounced) ==
  IF "NONE" # debounced
     /\ is_not_opposite_direction(tentative, debounced)
  THEN debounced
  ELSE tentative

\* the loop body without its test for NONE
accept_input_any(player_direction, tentative, debounced) ==
  IF is_not_opposite_direction(player_direction, debounced)
  THEN debounced
  ELSE tentative

\* the loop body keeping the first input it accepted
accept_input_first(player_direction, tentative, debounced) ==
  IF "NONE" # debounced
     /\ is_not_opposite_direction(player_direction, debounced)
     /\ tentative = player_direction
  THEN debounced
  ELSE tentative

\* body of the for loop of get_direction_input for one debounced input:
\* new_input afterwards (tentative: new_input before, debounced: the input)
accept_input(player_direction, tentative, debounced) ==
  IF "NONE" # debounced
     /\ is_not_opposite_direction(player_direction, debounced)
  THEN debounced
  ELSE tentative

\* new_input after the debounced inputs ds, in order
RECURSIVE poll_inputs(_, _, _)
poll_inputs(player_direction, tentative, ds) ==
  IF ds = <<>> THEN tentative
  ELSE poll_inputs(player_direction,
                   accept_input(player_direction, tentative, Head(ds)),
                   Tail(ds))

\* sequences of at most MaxEdges debounced edges
EdgeSeqs ==
  UNION {[1..n -> Directions \ {"NONE"}] : n \in 0..MaxEdges}

-----------------------------------------------------------------------------
(* Pure functions of the input module *)

Buttons == {"LEFT", "RIGHT", "UP", "DOWN"}

\* value of a uint16_t after storing v
ToUint16(v) == v % 65536

\* (1 << w) - 1 stored in a uint16_t, w = DEBOUNCING_TOTAL_TIME/DEBOUNCING_INTERVAL
debounce_mask(w) == ToUint16(2^w - 1)

DEBOUNCE_MASK == debounce_mask(DEBOUNCING_TOTAL_TIME \div DEBOUNCING_INTERVAL)

\* input_check_debounced reporting while the register covers the mask
input_check_level(debounce_value, pressed, mask) ==
  IF pressed
  THEN LET shifted == ToUint16(ToUint16(debounce_value * 2) + 1)
       IN  [ret |-> (mask <= shifted), value |-> shifted]
  ELSE [ret |-> FALSE, value |-> 0]

\* input_check_debounced against the mask of a build: the value returned and
\* the register afterwards; pressed is BUTTON_PRESSED == digitalRead(pin)
input_check(debounce_value, pressed, mask) ==
  IF pressed
  THEN LET shifted == ToUint16(ToUint16(debounce_value * 2) + 1)
       IN  [ret |-> (mask = shifted), value |-> shifted]
  ELSE [ret |-> FALSE, value |-> 0]

input_check_debounced(debounce_value, pressed) ==
  input_check(debounce_value, pressed, DEBOUNCE_MASK)

\* receive_debounced_input: the direction returned and the four registers
\* afterwards; a button is read only if no earlier button returned an edge
receive_debounced_input(regs, pressed) ==
  LET l == input_check_debounced(regs.LEFT, pressed.LEFT)
      r == input_check_debounced(regs.RIGHT, pressed.RIGHT)
      u == input_check_debounced(regs.UP, pressed.UP)
      d == input_check_debounced(regs.DOWN, pressed.DOWN)
  IN  IF l.ret
      THEN [dir |-> "LEFT", regs |-> [regs EXCEPT !.LEFT = l.value]]
      ELSE IF r.ret
      THEN [dir |-> "RIGHT",
            regs |-> [regs EXCEPT !.LEFT = l.value, !.RIGHT = r.value]]
      ELSE IF u.ret
      THEN [dir |-> "UP",
            regs |-> [regs EXCEPT !.LEFT = l.value, !.RIGHT = r.value,
                                  !.UP = u.value]]
      ELSE IF d.ret
      THEN [dir |-> "DOWN",
            regs |-> [LEFT |-> l.value, RIGHT |-> r.value,
                      UP |-> u.value, DOWN |-> d.value]]
      ELSE [dir |-> "NONE",
            regs |-> [LEFT |-> l.value, RIGHT |-> r.value,
                      UP |-> u.value, DOWN |-> d.value]]

-----------------------------------------------------------------------------
(* The game: loop() calling snake_game *)

NoTick == [player |-> [x_coord |-> 0, y_coord |-> 0, player_direction |-> "NONE"],
           fruit |-> [x_coord |-> 0, y_coord |-> 0],
           score |-> 0,
           board |-> ZeroBoard]

GameInit ==
  /\ pc = "start"
  /\ game_board = ZeroBoard
  /\ score = 0
  /\ player = [x_coord |-> 0, y_coord |-> 0, player_direction |-> "NONE"]
  /\ fruit = [x_coord |-> 0, y_coord |-> 0]
  /\ fruit_ret = "start"
  /\ cleared = {}
  /\ ticks = 0
  /\ tick0 = NoTick
  /\ aged = 0
  /\ placed = 0
  /\ valid_out = TRUE

\* the cells the free-standing grid writes to
ProbeCells == {<<0, 0>>, <<1, 2>>, <<X_COORD_LIMIT - 1, Y_COORD_LIMIT - 1>>}

GridInit ==
  /\ op = "none"
  /\ written = [c \in ProbeCells |-> 0]
  /\ ages = [c \in ProbeCells |-> 0]

\* the statics of receive_debounced_input start at 0
InputInit ==
  /\ in_pc = "idle"
  /\ new_input = "NONE"
  /\ poll_i = 0
  /\ debounce = [b \in Buttons |-> 0]
  /\ debounced_input = "NONE"
  /\ entry_direction = "RIGHT"
  /\ accepted = 0
  /\ last_accepted = "NONE"
  /\ raw_run = [b \in Buttons |-> 0]
  /\ run_reports = [b \in Buttons |-> 0]
  /\ run_ended = [b \in Buttons |-> -1]
  /\ game_start = TRUE

DebounceInit ==
  /\ db_w = DEBOUNCING_TOTAL_TIME \div DEBOUNCING_INTERVAL
  /\ db_reg = 0
  /\ db_run = 0
  /\ db_out = FALSE

\* is_not_opposite_direction not called yet
FilterInit ==
  /\ f_old = "NONE"
  /\ f_new = "NONE"
  /\ f_out = "none"
  /\ f_calls = 0

\* int8_t score = 0; nothing written at the head yet
ScoreInit ==
  /\ sc_ttl = INITIAL_LENGTH
  /\ sc_prev = 0
  /\ sc_fruits = 0

\* loop() calls snake_game(500)
WaitInit ==
  /\ w_t = 500
  /\ w_wait = 500
  /\ w_delay = ToUint32(0)
  /\ w_done = FALSE

AuxInit == FilterInit /\ ScoreInit /\ WaitInit

Init == GameInit /\ GridInit /\ InputInit /\ DebounceInit /\ AuxInit

\* snake_game entry with the spawn drawn from the whole board
GameStart_anywhere ==
  /\ pc = "start"
  /\ game_board' = ZeroBoard
  /\ score' = 0
  /\ \E x \in Random(0, X_COORD_LIMIT), y \in Random(0, Y_COORD_LIMIT) :
       player' = [x_coord |-> x, y_coord |-> y, player_direction |-> "RIGHT"]
  /\ fruit' = [x_coord |-> 0, y_coord |-> 0]
  /\ fruit_ret' = "start"
  /\ pc' = "fruit"
  /\ cleared' = {}
  /\ ticks' = 0
  /\ tick0' = NoTick
  /\ aged' = 0
  /\ placed' = 0
  /\ valid_out' = TRUE
  /\ UNCHANGED <<gridVars, inputVars, inputHist, debVars, auxVars>>

\* snake_game entry: locals initialised, first call of generate_fruit_location
GameStart ==
  /\ pc = "start"
  /\ game_board' = ZeroBoard
  /\ score' = 0
  /\ \E x \in Random(SPAWN_MARGIN, X_COORD_LIMIT - SPAWN_MARGIN),
        y \in Random(SPAWN_MARGIN, Y_COORD_LIMIT - SPAWN_MARGIN) :
       player' = [x_coord |-> x, y_coord |-> y, player_direction |-> "RIGHT"]
  /\ fruit' = [x_coord |-> 0, y_coord |-> 0]
  /\ fruit_ret' = "start"
  /\ pc' = "fruit"
  /\ cleared' = {}
  /\ ticks' = 0
  /\ tick0' = NoTick
  /\ aged' = 0
  /\ placed' = 0
  /\ valid_out' = TRUE
  /\ UNCHANGED <<gridVars, inputVars, inputHist, debVars, auxVars>>

\* one iteration of the do-while of generate_fruit_location in which
\* random() returns x and y
DrawFruitAt(x, y) ==
  /\ pc = "fruit"
  /\ fruit' = [x_coord |-> x, y_coord |-> y]
  /\ pc' = IF fruit_rejected(fruit', player, game_board)
           THEN "fruit" ELSE "fruit_drawn"
  /\ UNCHANGED <<game_board, score, player, fruit_ret, cleared, ticks, tick0,
                 aged, placed>>
  /\ UNCHANGED <<valid_out, gridVars, inputVars, inputHist, debVars, auxVars>>

\* one iteration of the do-while of generate_fruit_location
DrawFruit ==
  \E x \in Random(0, X_COORD_LIMIT), y \in Random(0, Y_COORD_LIMIT) :
    DrawFruitAt(x, y)

\* display_draw_new(*new_fruit) and the return of generate_fruit_location;
\* at the start of a game also display_draw_new(player) and
\* display_draw_new(fruit) of snake_game
FruitPlaced ==
  /\ pc = "fruit_drawn"
  /\ pc' = IF display_draw_new_halts(fruit) THEN "halt"
           ELSE IF fruit_ret = "start"
           THEN IF display_draw_new_halts(player) THEN "halt" ELSE "check"
           ELSE "write"
  /\ placed' = placed + 1
  /\ UNCHANGED <<game_board, score, player, fruit, fruit_ret, cleared, ticks,
                 tick0, aged>>
  /\ UNCHANGED <<valid_out, gridVars, inputVars, inputHist, debVars, auxVars>>

\* the loop body entered whatever location_valid returns
TickValid_unchecked ==
  /\ pc = "check"
  /\ ticks < MaxTicks
  /\ valid_out' = location_valid(player, game_board)
  /\ pc' = "body"
  /\ ticks' = ticks + 1
  /\ tick0' = [player |-> player, fruit |-> fruit, score |-> score,
               board |-> game_board]
  /\ aged' = 0
  /\ placed' = 0
  /\ UNCHANGED <<game_board, score, player, fruit, fruit_ret, cleared>>
  /\ UNCHANGED <<gridVars, inputVars, inputHist, debVars, auxVars>>

\* while (location_valid(...)) taken
TickValid ==
  /\ pc = "check"
  /\ ticks < MaxTicks
  /\ valid_out' = location_valid(player, game_board)
  /\ valid_out'
  /\ pc' = "body"
  /\ ticks' = ticks + 1
  /\ tick0' = [player |-> player, fruit |-> fruit, score |-> score,
               board |-> game_board]
  /\ aged' = 0
  /\ placed' = 0
  /\ UNCHANGED <<game_board, score, player, fruit, fruit_ret, cleared>>
  /\ UNCHANGED <<gridVars, inputVars, inputHist, debVars, auxVars>>

\* the loop left only after this tick's board_clear_old
TickInvalid_after_aging ==
  /\ pc = "check"
  /\ valid_out' = location_valid(player, game_board)
  /\ ~valid_out'
  /\ game_board' = board_clear_old(game_board)
  /\ pc' = "ended"
  /\ UNCHANGED <<score, player, fruit, fruit_ret, cleared, ticks,
                 tick0, aged, placed>>
  /\ UNCHANGED <<gridVars, inputVars, inputHist, debVars, auxVars>>

\* while (location_valid(...)) left
TickInvalid ==
  /\ pc = "check"
  /\ valid_out' = location_valid(player, game_board)
  /\ ~valid_out'
  /\ pc' = "ended"
  /\ UNCHANGED <<game_board, score, player, fruit, fruit_ret, cleared, ticks,
                 tick0, aged, placed>>
  /\ UNCHANGED <<gridVars, inputVars, inputHist, debVars, auxVars>>

\* the scoring branch that also runs board_clear_old
ScoreFruit_and_age ==
  /\ pc = "body"
  /\ player_at_fruit(player, fruit)
  /\ score' = ToInt8(score + 1)
  /\ game_board' = board_clear_old(game_board)
  /\ fruit_ret' = "score"
  /\ pc' = "fruit"
  /\ UNCHANGED <<player, fruit, cleared, ticks, tick0, aged, placed>>
  /\ UNCHANGED <<valid_out, gridVars, inputVars, inputHist, debVars, auxVars>>

\* if (player_at_fruit(...)): score++, generate_fruit_location
ScoreFruit ==
  /\ pc = "body"
  /\ player_at_fruit(player, fruit)
  /\ score' = ToInt8(score + 1)
  /\ fruit_ret' = "score"
  /\ pc' = "fruit"
  /\ UNCHANGED <<game_board, player, fruit, cleared, ticks, tick0, aged, placed>>
  /\ UNCHANGED <<valid_out, gridVars, inputVars, inputHist, debVars, auxVars>>

\* the else branch leaving the grid as it is
ClearOld_no_aging ==
  /\ pc = "body"
  /\ ~player_at_fruit(player, fruit)
  /\ game_board' = game_board
  /\ cleared' = {}
  /\ aged' = aged + 1
  /\ pc' = "write"
  /\ UNCHANGED <<score, player, fruit, fruit_ret, ticks, tick0, placed>>
  /\ UNCHANGED <<valid_out, gridVars, inputVars, inputHist, debVars, auxVars>>

\* else: board_clear_old(game_board)
ClearOld ==
  /\ pc = "body"
  /\ ~player_at_fruit(player, fruit)
  /\ game_board' = board_clear_old(game_board)
  /\ cleared' = cleared_spaces(game_board)
  /\ aged' = aged + 1
  /\ pc' = "write"
  /\ UNCHANGED <<score, player, fruit, fruit_ret, ticks, tick0, placed>>
  /\ UNCHANGED <<valid_out, gridVars, inputVars, inputHist, debVars, auxVars>>

\* game_board[player.x_coord][player.y_coord] = score + INITIAL_LENGTH
HeadWrite ==
  /\ pc = "write"
  /\ game_board' = [game_board EXCEPT ![player.x_coord][player.y_coord] =
                      ToInt8(score + INITIAL_LENGTH)]
  /\ pc' = "input"
  /\ UNCHANGED <<score, player, fruit, fruit_ret, cleared, ticks, tick0, aged,
                 placed>>
  /\ UNCHANGED <<valid_out, gridVars, inputVars, inputHist, debVars, auxVars>>

\* get_direction_input: the debounced inputs of the tick are the input
GetDirectionInput ==
  /\ pc = "input"
  /\ \E ds \in EdgeSeqs :
       player' = [player EXCEPT !.player_direction =
                    poll_inputs(player.player_direction,
                                player.player_direction, ds)]
  /\ pc' = "move"
  /\ UNCHANGED <<game_board, score, fruit, fruit_ret, cleared, ticks, tick0,
                 aged, placed>>
  /\ UNCHANGED <<valid_out, gridVars, inputVars, inputHist, debVars, auxVars>>

\* move_player(&player), display_draw_new(*player) at its end included
MovePlayer ==
  /\ pc = "move"
  /\ player' = move_player(player)
  /\ pc' = IF display_draw_new_halts(player') THEN "halt" ELSE "check"
  /\ UNCHANGED <<game_board, score, fruit, fruit_ret, cleared, ticks, tick0,
                 aged, placed>>
  /\ UNCHANGED <<valid_out, gridVars, inputVars, inputHist, debVars, auxVars>>

\* display_print_score(88), delay(500), return; loop() calls snake_game again
GameOver ==
  /\ pc = "ended"
  /\ pc' = "start"
  /\ UNCHANGED <<game_board, score, player, fruit, fruit_ret, cleared, ticks,
                 tick0, aged, placed>>
  /\ UNCHANGED <<valid_out, gridVars, inputVars, inputHist, debVars, auxVars>>

Next ==
  \/ GameStart
  \/ DrawFruit
  \/ FruitPlaced
  \/ TickValid
  \/ TickInvalid
  \/ ScoreFruit
  \/ ClearOld
  \/ HeadWrite
  \/ GetDirectionInput
  \/ MovePlayer
  \/ GameOver

Spec == Init /\ [][Next]_vars

\* get_direction_input in a tick in which no button reaches a debounced edge
NoDirectionInput ==
  /\ pc = "input"
  /\ player' = [player EXCEPT !.player_direction =
                  poll_inputs(player.player_direction,
                              player.player_direction, <<>>)]
  /\ pc' = "move"
  /\ UNCHANGED <<game_board, score, fruit, fruit_ret, cleared, ticks, tick0,
                 aged, placed>>
  /\ UNCHANGED <<valid_out, gridVars, inputVars, inputHist, debVars, auxVars>>

StraightNext ==
  \/ GameStart
  \/ DrawFruit
  \/ FruitPlaced
  \/ TickValid
  \/ TickInvalid
  \/ ScoreFruit
  \/ ClearOld
  \/ HeadWrite
  \/ NoDirectionInput
  \/ MovePlayer
  \/ GameOver

\* games without any debounced edge: the program keeps running, and the
\* random source keeps drawing each cell
SpecStraight ==
  /\ Init
  /\ [][StraightNext]_vars
  /\ WF_vars(StraightNext)
  /\ \A x \in Random(0, X_COORD_LIMIT), y \in Random(0, Y_COORD_LIMIT) :
       WF_vars(DrawFruitAt(x, y))

\* the game with a random source that keeps drawing every cell: a draw that
\* stays possible is made in the end, for each cell of the board
SpecFair ==
  /\ Init
  /\ [][Next]_vars
  /\ \A x \in Random(0, X_COORD_LIMIT), y \in Random(0, Y_COORD_LIMIT) :
       WF_vars(DrawFruitAt(x, y))

-----------------------------------------------------------------------------
(* The grid on its own: head writes and board_clear_old *)

\* largest TTL written to the free-standing grid
MaxTTL == 3

\* game_board[x][y] = ttl, the head write of snake_game, at a probed cell
GridWrite ==
  /\ \E c \in ProbeCells, ttl \in 1..MaxTTL :
       /\ game_board' = [game_board EXCEPT ![c[1]][c[2]] = ToInt8(ttl)]
       /\ written' = [written EXCEPT ![c] = ttl]
       /\ ages' = [ages EXCEPT ![c] = 0]
  /\ op' = "write"
  /\ UNCHANGED <<pc, score, player, fruit, fruit_ret, cleared, ticks, tick0,
                 aged, placed, valid_out>>
  /\ UNCHANGED <<inputVars, inputHist, debVars, auxVars>>

\* board_clear_old(game_board)
GridClearOld ==
  /\ \A c \in ProbeCells : ages[c] < MaxTTL + 2
  /\ game_board' = board_clear_old(game_board)
  /\ cleared' = cleared_spaces(game_board)
  /\ ages' = [c \in ProbeCells |-> IF written[c] > 0 THEN ages[c] + 1 ELSE 0]
  /\ op' = "clear"
  /\ UNCHANGED <<pc, score, player, fruit, fruit_ret, ticks, tick0, aged,
                 placed, valid_out, written>>
  /\ UNCHANGED <<inputVars, inputHist, debVars, auxVars>>

GridNext ==
  \/ GridWrite
  \/ GridClearOld

SpecGrid == Init /\ [][GridNext]_vars

-----------------------------------------------------------------------------
(* get_direction_input, one sample iteration per step *)

\* input_wait of the modelled calls, in ms
InputWait == 27
\* longest run of active samples of one button
MaxHold == 5

Samples == [Buttons -> BOOLEAN]

\* the direction a 180-degree turn of d leads to
opposite(d) ==
  CASE d = "LEFT" -> "RIGHT"
    [] d = "RIGHT" -> "LEFT"
    [] d = "UP" -> "DOWN"
    [] d = "DOWN" -> "UP"
    [] OTHER -> "NONE"

\* history: the latest debounced input of the call that is a direction and
\* no reversal of the direction the call began with
latest_allowed(entry, latest, debounced) ==
  IF debounced # "NONE" /\ debounced # opposite(entry)
  THEN debounced ELSE latest

\* history: per button, how often its direction was reported during its
\* current run of active instants, this instant's report included
reports_in_run(reports, pressed, reported) ==
  [b \in Buttons |->
     IF pressed[b]
     THEN reports[b] + (IF reported = b THEN 1 ELSE 0)
     ELSE 0]

\* history: per button, the reports of a run of at least the debounce width
\* that this instant's inactive level ends (-1: no such run ends now)
ended_run(run, reports, pressed) ==
  [b \in Buttons |->
     IF ~pressed[b] /\ run[b] >= DEBOUNCING_TOTAL_TIME \div DEBOUNCING_INTERVAL
     THEN reports[b] ELSE -1]

\* history: per button, how many of the latest sampling instants in a row
\* had its raw level active, counted up to the debounce width
active_run(run, pressed) ==
  [b \in Buttons |->
     IF pressed[b]
     THEN IF run[b] < DEBOUNCING_TOTAL_TIME \div DEBOUNCING_INTERVAL
          THEN run[b] + 1 ELSE run[b]
     ELSE 0]

\* get_direction_input entry: new_input = player_data->player_direction
PollEnter ==
  /\ in_pc = "idle"
  /\ new_input' = player.player_direction
  /\ debounced_input' = "NONE"
  /\ poll_i' = 0
  /\ entry_direction' = player.player_direction
  /\ accepted' = 0
  /\ last_accepted' = "NONE"
  /\ game_start' = FALSE
  /\ in_pc' = "loop"
  /\ UNCHANGED <<debounce, player, runHist>>
  /\ UNCHANGED <<pc, game_board, score, fruit, fruit_ret, cleared, ticks,
                 tick0, aged, placed, valid_out>>
  /\ UNCHANGED <<gridVars, debVars, auxVars>>

\* one iteration of the for loop: delay, receive_debounced_input, filter
PollIterate ==
  /\ in_pc = "loop"
  /\ (InputWait \div DEBOUNCING_INTERVAL) > poll_i
  /\ \E pressed \in Samples :
       /\ \A b \in Buttons : pressed[b] => debounce[b] < 2^MaxHold - 1
       /\ LET got == receive_debounced_input(debounce, pressed)
          IN  /\ debounce' = got.regs
              /\ debounced_input' = got.dir
              /\ new_input' = accept_input(player.player_direction, new_input,
                                           got.dir)
              /\ accepted' = IF new_input' = got.dir /\ got.dir # "NONE"
                             THEN accepted + 1 ELSE accepted
              /\ last_accepted' = latest_allowed(entry_direction,
                                                 last_accepted, got.dir)
  /\ poll_i' = poll_i + 1
  /\ UNCHANGED <<in_pc, entry_direction, player, game_start, runHist>>
  /\ UNCHANGED <<pc, game_board, score, fruit, fruit_ret, cleared, ticks,
                 tick0, aged, placed, valid_out>>
  /\ UNCHANGED <<gridVars, debVars, auxVars>>

\* loop left: delay(input_wait % DEBOUNCING_INTERVAL),
\* player_data->player_direction = new_input
PollReturn ==
  /\ in_pc = "loop"
  /\ ~((InputWait \div DEBOUNCING_INTERVAL) > poll_i)
  /\ player' = [player EXCEPT !.player_direction = new_input]
  /\ in_pc' = "idle"
  /\ UNCHANGED <<new_input, poll_i, debounce, debounced_input,
                 entry_direction, accepted, inputHist>>
  /\ UNCHANGED <<pc, game_board, score, fruit, fruit_ret, cleared, ticks,
                 tick0, aged, placed, valid_out>>
  /\ UNCHANGED <<gridVars, debVars, auxVars>>

\* the player as snake_game hands it to the first call
InputGameInit ==
  /\ pc = "input"
  /\ game_board = ZeroBoard
  /\ score = 0
  /\ player = [x_coord |-> SPAWN_MARGIN, y_coord |-> SPAWN_MARGIN,
               player_direction |-> "RIGHT"]
  /\ fruit = [x_coord |-> 0, y_coord |-> 0]
  /\ fruit_ret = "start"
  /\ cleared = {}
  /\ ticks = 0
  /\ tick0 = NoTick
  /\ aged = 0
  /\ placed = 0
  /\ valid_out = TRUE

\* snake_game returns after a tick and loop() calls it again: player is
\* initialised anew; the statics of receive_debounced_input are not touched
NewGame ==
  /\ in_pc = "idle"
  /\ ~game_start
  /\ \E x \in Random(SPAWN_MARGIN, X_COORD_LIMIT - SPAWN_MARGIN),
        y \in Random(SPAWN_MARGIN, Y_COORD_LIMIT - SPAWN_MARGIN) :
       player' = [x_coord |-> x, y_coord |-> y, player_direction |-> "RIGHT"]
  /\ entry_direction' = "RIGHT"
  /\ accepted' = 0
  /\ last_accepted' = "NONE"
  /\ game_start' = TRUE
  /\ UNCHANGED <<in_pc, new_input, poll_i, debounce, debounced_input, runHist>>
  /\ UNCHANGED <<pc, game_board, score, fruit, fruit_ret, cleared, ticks,
                 tick0, aged, placed, valid_out>>
  /\ UNCHANGED <<gridVars, debVars, auxVars>>

InputNext ==
  \/ PollEnter
  \/ PollIterate
  \/ PollReturn

InitInput ==
  InputGameInit /\ GridInit /\ InputInit /\ DebounceInit /\ AuxInit

SpecInput == InitInput /\ [][InputNext]_vars

\* game after game: the calls of get_direction_input of one game, then the
\* next call of snake_game
GamesNext ==
  \/ InputNext
  \/ NewGame

SpecGames == InitInput /\ [][GamesNext]_vars

-----------------------------------------------------------------------------
(* One debounce register, for every width the build check admits *)

\* longest run of active samples
MaxRun == 18

\* #if (0 == W) || (16 <= W) #error: the widths that compile
Widths == 1..15

DebounceBuildInit ==
  /\ db_w \in Widths
  /\ db_reg = 0
  /\ db_run = 0
  /\ db_out = FALSE

\* input_check_debounced with the pin read active
SampleActive ==
  /\ db_run < MaxRun
  /\ LET got == input_check(db_reg, TRUE, debounce_mask(db_w))
     IN  /\ db_reg' = got.value
         /\ db_out' = got.ret
  /\ db_run' = db_run + 1
  /\ UNCHANGED db_w
  /\ UNCHANGED <<gameVars, gridVars, inputVars, inputHist, auxVars>>

\* input_check_debounced with the pin read inactive
SampleInactive ==
  /\ LET got == input_check(db_reg, FALSE, debounce_mask(db_w))
     IN  /\ db_reg' = got.value
         /\ db_out' = got.ret
  /\ db_run' = 0
  /\ UNCHANGED db_w
  /\ UNCHANGED <<gameVars, gridVars, inputVars, inputHist, auxVars>>

DebounceNext ==
  \/ SampleActive
  \/ SampleInactive

InitDebounce ==
  GameInit /\ GridInit /\ InputInit /\ DebounceBuildInit /\ AuxInit

SpecDebounce == InitDebounce /\ [][DebounceNext]_vars

-----------------------------------------------------------------------------
(* receive_debounced_input, one call per sampling instant of the poll loop *)

\* receive_debounced_input() as called by each iteration of the for loop of
\* get_direction_input, with the raw levels of that instant
SampleButtons ==
  /\ \E pressed \in Samples :
       /\ \A b \in Buttons : pressed[b] => debounce[b] < 2^MaxHold - 1
       /\ LET got == receive_debounced_input(debounce, pressed)
          IN  /\ debounce' = got.regs
              /\ debounced_input' = got.dir
              /\ run_reports' = reports_in_run(run_reports, pressed, got.dir)
       /\ raw_run' = active_run(raw_run, pressed)
       /\ run_ended' = ended_run(raw_run, run_reports, pressed)
  /\ UNCHANGED <<in_pc, new_input, poll_i, entry_direction, accepted,
                 last_accepted, game_start>>
  /\ UNCHANGED <<gameVars, gridVars, debVars, auxVars>>

SampleNext == SampleButtons

SpecSample == InitInput /\ [][SampleNext]_vars

-----------------------------------------------------------------------------
(* get_direction_input for any tick duration *)

\* tick durations handed to snake_game(uint16_t input_wait): the short ones,
\* the one loop() passes, and the ends of the int16_t and uint16_t ranges
WaitTimes ==
  (0 .. 2 * DEBOUNCING_INTERVAL + 1) \cup {500, 2^15 - 1, 2^15, 2^16 - 1}

\* button samples of these calls: all released, or UP alone held
WaitSamples == {[b \in Buttons |-> FALSE], [b \in Buttons |-> b = "UP"]}

\* snake_game(w_t) calls get_direction_input(&player, input_wait): the
\* uint16_t value is converted to the int16_t parameter
WaitEnter ==
  /\ in_pc = "idle"
  /\ w_wait' = ToInt16(w_t)
  /\ w_delay' = ToUint32(0)
  /\ w_done' = FALSE
  /\ new_input' = player.player_direction
  /\ debounced_input' = "NONE"
  /\ poll_i' = 0
  /\ entry_direction' = player.player_direction
  /\ in_pc' = "loop"
  /\ UNCHANGED <<debounce, player, accepted, inputHist, w_t>>
  /\ UNCHANGED <<pc, game_board, score, fruit, fruit_ret, cleared, ticks,
                 tick0, aged, placed, valid_out>>
  /\ UNCHANGED <<gridVars, debVars, filterVars, scoreVars>>

\* one iteration of for (int16_t i = 0; (input_wait / DEBOUNCING_INTERVAL) > i;
\* i++): delay(DEBOUNCING_INTERVAL), receive_debounced_input, filter
WaitIterate ==
  /\ in_pc = "loop"
  /\ c_div(w_wait, DEBOUNCING_INTERVAL) > poll_i
  /\ w_delay' = delay_sum(w_delay, ToUint32(DEBOUNCING_INTERVAL))
  /\ \E pressed \in WaitSamples :
       /\ \A b \in Buttons : pressed[b] => debounce[b] < 2^MaxHold - 1
       /\ LET got == receive_debounced_input(debounce, pressed)
          IN  /\ debounce' = got.regs
              /\ debounced_input' = got.dir
              /\ new_input' = accept_input(player.player_direction, new_input,
                                           got.dir)
  /\ poll_i' = ToInt16(poll_i + 1)
  /\ UNCHANGED <<in_pc, entry_direction, player, accepted, inputHist>>
  /\ UNCHANGED <<w_t, w_wait, w_done>>
  /\ UNCHANGED <<pc, game_board, score, fruit, fruit_ret, cleared, ticks,
                 tick0, aged, placed, valid_out>>
  /\ UNCHANGED <<gridVars, debVars, filterVars, scoreVars>>

\* loop left: delay(input_wait % DEBOUNCING_INTERVAL), the int converted to
\* unsigned long; player_data->player_direction = new_input
WaitReturn ==
  /\ in_pc = "loop"
  /\ ~(c_div(w_wait, DEBOUNCING_INTERVAL) > poll_i)
  /\ w_delay' = delay_sum(w_delay,
                          ToUint32(c_rem(w_wait, DEBOUNCING_INTERVAL)))
  /\ w_done' = TRUE
  /\ player' = [player EXCEPT !.player_direction = new_input]
  /\ in_pc' = "idle"
  /\ UNCHANGED <<new_input, poll_i, debounce, debounced_input,
                 entry_direction, accepted, inputHist>>
  /\ UNCHANGED <<w_t, w_wait>>
  /\ UNCHANGED <<pc, game_board, score, fruit, fruit_ret, cleared, ticks,
                 tick0, aged, placed, valid_out>>
  /\ UNCHANGED <<gridVars, debVars, filterVars, scoreVars>>

\* snake_game called with any tick duration
WaitCallInit ==
  /\ w_t \in WaitTimes
  /\ w_wait = 0
  /\ w_delay = ToUint32(0)
  /\ w_done = FALSE

WaitNext ==
  \/ WaitEnter
  \/ WaitIterate
  \/ WaitReturn

InitWait ==
  /\ InputGameInit /\ GridInit /\ InputInit /\ DebounceInit
  /\ FilterInit /\ ScoreInit /\ WaitCallInit

SpecWait == InitWait /\ [][WaitNext]_vars

-----------------------------------------------------------------------------
(* is_not_opposite_direction on its own *)

\* calls of is_not_opposite_direction in one run
MaxCalls == 5

\* is_not_opposite_direction(old_direction, new_direction), any two values
\* of enum snake_direction
FilterCall ==
  /\ f_calls < MaxCalls
  /\ \E o \in Directions, n \in Directions :
       /\ f_old' = o
       /\ f_new' = n
       /\ f_out' = is_not_opposite_direction(o, n)
  /\ f_calls' = f_calls + 1
  /\ UNCHANGED <<gameVars, gridVars, inputVars, inputHist, debVars,
                 scoreVars, waitVars>>

FilterNext == FilterCall

SpecFilter == Init /\ [][FilterNext]_vars

-----------------------------------------------------------------------------
(* The score and the head's TTL over a long game on the full-size board *)

\* #define X_COORD_LIMIT 36 and #define Y_COORD_LIMIT 19, the board as built
FULL_X_COORD_LIMIT == 36
FULL_Y_COORD_LIMIT == 19

\* fruits after which the snake fills the whole board
MaxFruits == FULL_X_COORD_LIMIT * FULL_Y_COORD_LIMIT - INITIAL_LENGTH

\* a tick whose position is the fruit's: score++, then the head write
\* game_board[x][y] = score + INITIAL_LENGTH into an int8_t cell
ScoringTickWrite ==
  /\ sc_fruits < MaxFruits
  /\ sc_prev' = score
  /\ score' = ToInt8(score + 1)
  /\ sc_ttl' = ToInt8(score' + INITIAL_LENGTH)
  /\ sc_fruits' = sc_fruits + 1
  /\ UNCHANGED <<pc, game_board, player, fruit, fruit_ret, cleared, ticks,
                 tick0, aged, placed, valid_out>>
  /\ UNCHANGED <<gridVars, inputVars, inputHist, debVars, filterVars, waitVars>>

\* a tick without a fruit: the head write alone
PlainTickWrite ==
  /\ sc_prev' = score
  /\ sc_ttl' = ToInt8(score + INITIAL_LENGTH)
  /\ UNCHANGED <<score, sc_fruits>>
  /\ UNCHANGED <<pc, game_board, player, fruit, fruit_ret, cleared, ticks,
                 tick0, aged, placed, valid_out>>
  /\ UNCHANGED <<gridVars, inputVars, inputHist, debVars, filterVars, waitVars>>

ScoreNext ==
  \/ ScoringTickWrite
  \/ PlainTickWrite

SpecScore == Init /\ [][ScoreNext]_vars

-----------------------------------------------------------------------------
(* Properties *)

OutOfBoard(p) == p.x_coord \notin Xs \/ p.y_coord \notin Ys

\* the TTL a cell holding v has after one aging
AgedOnce(v) == IF v > 0 THEN v - 1 ELSE v

\* this tick began with the player on the fruit
ScoringTick == player_at_fruit(tick0.player, tick0.fruit)

\* C1: location_valid returns false iff the player's x is outside
\* [0, X_COORD_LIMIT), or y is outside [0, Y_COORD_LIMIT), or the grid cell at
\* the player's position holds a value > 0, and true otherwise (Spec: at every
\* validity check of a game, the result against the position and grid checked).
C1_LocationValidIff ==
  pc \in {"body", "ended"} =>
    /\ valid_out \in BOOLEAN
    /\ (valid_out = FALSE) <=>
         \/ player.x_coord < 0 \/ player.x_coord >= X_COORD_LIMIT
         \/ player.y_coord < 0 \/ player.y_coord >= Y_COORD_LIMIT
         \/ game_board[player.x_coord][player.y_coord] > 0

\* C1 witness: a check that failed on an occupied cell inside the board
C1_Witness ==
  /\ pc = "ended"
  /\ ~OutOfBoard(player)
  /\ game_board[player.x_coord][player.y_coord] > 0
  /\ valid_out = FALSE

\* C2: when a move has taken the player outside the board, the next validity
\* check ends the game, and that last check writes no head, ages nothing,
\* relocates no fruit and leaves the score alone (Spec).
C2_OutOfBoardEndsGame ==
  [][(pc = "check" /\ OutOfBoard(player)) =>
       /\ pc' = "ended"
       /\ UNCHANGED <<score, game_board, fruit, cleared, aged, placed>>]_vars

\* C2 witness: a game that ended at x = -1 with a trail on the board and a
\* score above 0
C2_Witness ==
  /\ pc = "ended"
  /\ player.x_coord = -1
  /\ score > 0
  /\ \E x \in Xs, y \in Ys : game_board[x][y] > 0

\* C3: the direction get_direction_input leaves in the player state is never
\* the opposite of the direction the player state held when the call began,
\* however many inputs the call accepted (SpecInput).
OppositeOf == [LEFT |-> "RIGHT", RIGHT |-> "LEFT", UP |-> "DOWN", DOWN |-> "UP"]

C3_NeverReverses ==
  in_pc = "idle" =>
    /\ entry_direction \in DOMAIN OppositeOf
    /\ player.player_direction # OppositeOf[entry_direction]

\* C3 witness: a call that accepted two inputs and returned a turn
C3_Witness ==
  /\ in_pc = "idle"
  /\ accepted >= 2
  /\ player.player_direction # entry_direction

\* C4: for a register of width W in 1..15, input_check_debounced returns true
\* exactly at the W-th sample of a run of active samples and at no other
\* sample, however long the run; an inactive sample resets the register to 0
\* and returns false (SpecDebounce).
C4_OncePerRun ==
  /\ db_out <=> (db_run = db_w)
  /\ (db_run = 0) => (db_reg = 0 /\ db_out = FALSE)

\* C4 witness: the widest register held beyond its 16 bits, saturated, silent
C4_Witness ==
  /\ db_w = 15
  /\ db_run > 16
  /\ db_reg = 65535
  /\ db_out = FALSE

C6_FruitOnFreeCell ==
  pc = "fruit_drawn" => game_board[fruit.x_coord][fruit.y_coord] = 0

\* C7: every fruit position generate_fruit_location returns differs from the
\* player's position (Spec).
C7_FruitNotOnPlayer ==
  pc = "fruit_drawn" => ~player_at_fruit(player, fruit)

\* C8: a cell written with TTL n > 0 and not written again holds n - k after
\* k < n calls of board_clear_old and 0 after n or more calls (SpecGrid).
C8_TTLCountdown ==
  \A c \in ProbeCells :
    written[c] > 0 =>
      game_board[c[1]][c[2]] =
        (IF ages[c] < written[c] THEN written[c] - ages[c] ELSE 0)

\* C8 witness: a cell written with the largest TTL, aged beyond it, free
C8_Witness ==
  \E c \in ProbeCells :
    /\ written[c] = MaxTTL
    /\ ages[c] > written[c]
    /\ game_board[c[1]][c[2]] = 0

\* C9: after a non-scoring valid tick that began at p and ended with
\* direction d, the player is at p displaced by one cell in direction d,
\* grid[p] = score + INITIAL_LENGTH, and the cell at the new position holds
\* what aging left there: this tick has not written it (Spec).
DeltaOf == [LEFT |-> <<-1, 0>>, RIGHT |-> <<1, 0>>,
            UP |-> <<0, -1>>, DOWN |-> <<0, 1>>]

C10_ClearOldFrame ==
  [][(op' = "clear") =>
       /\ \A x \in Xs, y \in Ys :
            /\ game_board[x][y] > 0 => game_board'[x][y] = game_board[x][y] - 1
            /\ game_board[x][y] = 0 => game_board'[x][y] = 0
       /\ cleared' = {c \in Xs \X Ys : /\ game_board[c[1]][c[2]] > 0
                                       /\ game_board'[c[1]][c[2]] = 0}
       /\ (game_board = ZeroBoard) => (game_board' = ZeroBoard /\ cleared' = {})
    ]_vars

\* C10 witness: a call that cleared one cell and left another occupied
C10_Witness ==
  /\ op = "clear"
  /\ cleared # {}
  /\ \E x \in Xs, y \in Ys : game_board[x][y] > 0

\* the four ordered pairs of opposite directions
OppositePairs ==
  {<<"LEFT", "RIGHT">>, <<"RIGHT", "LEFT">>, <<"UP", "DOWN">>, <<"DOWN", "UP">>}

\* C11: is_not_opposite_direction(old, new) is false exactly for the four
\* ordered opposite pairs and true for every other pair of NONE, LEFT, RIGHT,
\* UP, DOWN (new = old, new = NONE and old = NONE included).
C11_FilterTruthTable ==
  f_calls > 0 =>
    /\ f_out \in BOOLEAN
    /\ (f_out = FALSE) <=> (<<f_old, f_new>> \in OppositePairs)

\* a reversal from DOWN to UP was refused
C11_Witness ==
  f_calls > 0 /\ f_old = "DOWN" /\ f_new = "UP" /\ f_out = FALSE

\* C12: get_direction_input leaves in the player state the most recently
\* accepted debounced direction of the call (a later accepted edge overwrites
\* an earlier one); with no accepted edge the direction is the one before the
\* call; the call never changes the player's coordinates.
C12_LastAcceptedWins ==
  /\ [](in_pc = "idle" =>
          player.player_direction =
            IF last_accepted # "NONE" THEN last_accepted ELSE entry_direction)
  /\ [][(in_pc = "loop" \/ in_pc' = "loop") =>
          /\ player'.x_coord = player.x_coord
          /\ player'.y_coord = player.y_coord]_vars

\* C12 witness: two edges were accepted and the call returned the later one,
\* which is not the first one accepted
C12_Witness ==
  /\ in_pc = "idle"
  /\ accepted >= 2
  /\ last_accepted # "NONE"
  /\ player.player_direction = last_accepted
  /\ debounced_input = "NONE"
  /\ last_accepted # entry_direction

\* C13: at the start of every game all four debounce registers are 0.
C13_RegistersZeroAtGameStart ==
  game_start => \A b \in Buttons : debounce[b] = 0

\* C14: from game start to game end the player's direction is one of LEFT,
\* RIGHT, UP, DOWN and never NONE, whatever the button samples; hence the
\* move of every tick changes the position.
C14_DirectionNeverNone ==
  /\ player.player_direction \in Buttons
  /\ in_pc = "loop" => new_input \in Buttons
  /\ move_player(player) # player

\* C14 witness: a whole call went by without an accepted edge while the snake
\* was heading UP, and the heading is still UP
C14_Witness ==
  /\ in_pc = "idle"
  /\ poll_i = InputWait \div DEBOUNCING_INTERVAL
  /\ accepted = 0
  /\ last_accepted = "NONE"
  /\ entry_direction = "UP"
  /\ player.player_direction = "UP"

\* C15: within a game the score is >= 0 and never decreases from one tick to
\* the next, and the TTL written at the head (score + INITIAL_LENGTH) is > 0,
\* with score and cells as int8_t, for every number of fruits the 36x19 board
\* admits.
C15_ScoreAndTTLPositive ==
  /\ score >= 0
  /\ score >= sc_prev
  /\ sc_ttl > 0

\* a cell the do-while of generate_fruit_location leaves on
Acceptable(x, y) ==
  ~fruit_rejected([x_coord |-> x, y_coord |-> y], player, game_board)

\* C16: with a random source that eventually draws every cell, the rejection
\* loop of generate_fruit_location terminates in every reachable state in
\* which it is called: some cell is acceptable whenever it is called.
C16_FruitLoopTerminates ==
  /\ [](pc = "fruit" => \E x \in Xs, y \in Ys : Acceptable(x, y))
  /\ (pc = "fruit") ~> (pc = "fruit_drawn")

\* C16 witness: the loop was entered after a fruit was eaten, drew a cell it
\* rejected and is still drawing
C16_Witness ==
  /\ pc = "fruit"
  /\ fruit_ret = "score"
  /\ fruit # tick0.fruit
  /\ fruit_rejected(fruit, player, game_board)

\* C17: for every tick duration t passed to snake_game, one call of
\* get_direction_input performs exactly floor(t / DEBOUNCING_INTERVAL) sample
\* iterations and delays for exactly t ms in total; for
\* t < DEBOUNCING_INTERVAL it takes no sample and leaves direction and
\* debounce registers unchanged.
C17_ExactTickDuration ==
  /\ [](w_done => /\ poll_i = w_t \div DEBOUNCING_INTERVAL
                  /\ w_delay = [wraps |-> 0, ms |-> w_t])
  /\ [][w_t < DEBOUNCING_INTERVAL =>
          /\ poll_i' = 0
          /\ debounce' = debounce
          /\ player' = player]_vars

C19_AllRegistersUpdated ==
  [][\A b \in Buttons :
       debounce'[b] = IF raw_run'[b] > 0
                      THEN ToUint16(ToUint16(debounce[b] * 2) + 1)
                      ELSE 0]_vars

\* C20: receive_debounced_input reports a button's direction at a sampling
\* instant only if that button's raw level was active at each of the W = 4
\* most recent sampling instants, whatever the other buttons do.
C20_EdgeNeedsFullWindow ==
  debounced_input # "NONE" =>
    raw_run[debounced_input] >= DEBOUNCING_TOTAL_TIME \div DEBOUNCING_INTERVAL

\* C21: for every button, whatever the other buttons do, each maximal run of
\* at least W = 4 consecutive sampling instants at which the button is active
\* makes receive_debounced_input report its direction exactly once.
C21_OneReportPerRun ==
  \A b \in Buttons :
    /\ run_reports[b] <= 1
    /\ run_ended[b] \in {-1, 1}

\* the cells of the grid holding a value > 0
Occupied == {c \in Xs \X Ys : game_board[c[1]][c[2]] > 0}

Min(a, b) == IF a < b THEN a ELSE b

\* C22: immediately after the head write of the t-th valid tick of a game
\* the number of occupied cells is min(t, score + INITIAL_LENGTH), for every
\* sequence of directions and fruit positions.
C22_TrailLength ==
  pc = "input" => Cardinality(Occupied) = Min(ticks, score + INITIAL_LENGTH)

\* C22 witness: more ticks than the trail is long have gone by and the trail
\* has its full length
C22_Witness ==
  /\ pc = "input"
  /\ ticks > score + INITIAL_LENGTH
  /\ Cardinality(Occupied) = score + INITIAL_LENGTH

\* C23: every grid cell value lies in [0, score + INITIAL_LENGTH] (never
\* negative), and right after each head write the head cell holds the
\* maximum, score + INITIAL_LENGTH; here for the value the head write stores,
\* over every number of fruits of a full-size game.
C23_HeadValueInRange ==
  /\ 0 <= sc_ttl
  /\ sc_ttl <= score + INITIAL_LENGTH
  /\ sc_fruits > 0 => sc_ttl = score + INITIAL_LENGTH

\* C24: at every validity check the player is within one cell of the board,
\* x in [-1, X_COORD_LIMIT] and y in [-1, Y_COORD_LIMIT], with at most one
\* coordinate out of range, and the position is never out of bounds at two
\* consecutive validity checks.
C24_WithinOneCell ==
  pc = "check" =>
    /\ player.x_coord \in -1 .. X_COORD_LIMIT
    /\ player.y_coord \in -1 .. Y_COORD_LIMIT
    /\ player.x_coord \in Xs \/ player.y_coord \in Ys
    /\ OutOfBoard(player) =>
         /\ ticks >= 1
         /\ ~OutOfBoard(tick0.player)

\* C24 witness: a validity check with the player one cell above the board
C24_Witness ==
  /\ pc = "check"
  /\ player.y_coord = -1
  /\ player.x_coord \in Xs
  /\ ticks >= 2

\* C25: if no direction change is ever accepted during a game, the game
\* reaches ENDED: the snake, spawned at least the spawn margin inside the
\* board and heading RIGHT, leaves the board and the main loop exits after at
\* most X_COORD_LIMIT minus the margin moves.
C25_StraightGameEnds ==
  /\ [](ticks <= X_COORD_LIMIT - SPAWN_MARGIN)
  /\ [](pc \in {"check", "body", "write", "input", "move", "ended"} =>
          player.player_direction = "RIGHT")
  /\ (pc = "start") ~> (pc = "ended")

\* C25 witness: a game without any turn ended with the player just beyond
\* the right edge, after as many moves as the bound allows
C25_Witness ==
  /\ pc = "ended"
  /\ player.x_coord = X_COORD_LIMIT
  /\ ticks = X_COORD_LIMIT - SPAWN_MARGIN
  /\ ~valid_out

\* C26: the out-of-bounds error halt of display_draw_new (x_coord >
\* X_COORD_LIMIT or y_coord > Y_COORD_LIMIT in the DEBUG build) is never
\* reached: no player or fruit coordinate passed to it from snake_game,
\* generate_fruit_location or move_player satisfies that condition.
C26_NeverHalts ==
  /\ pc # "halt"
  /\ pc \in {"check", "fruit_drawn"} =>
       /\ ~display_draw_new_halts(player)
       /\ ~display_draw_new_halts(fruit)

\* C26 witness: move_player has passed display_draw_new a position one cell
\* below the board, and the game went on to its validity check
C26_Witness ==
  /\ pc = "check"
  /\ player.y_coord = Y_COORD_LIMIT
  /\ player.player_direction = "DOWN"

=============================================================================
